---- MODULE Spec2Model ----
(***************************************************************************)
(* Model of bsg.py: the BSG Magazine product tracker.                      *)
(*                                                                         *)
(* Strings are sequences of lexemes.  A lexeme is a character ("/", "?",   *)
(* "=", "&", " ", a decimal digit) or a word that the code never looks     *)
(* inside ("catalog", "page", "Ceas", ...); "p" is the letter p of a /pN   *)
(* path segment and H is the scheme and host "https://bsgmag.ro".          *)
(* Python's None, a missing attribute and a missing element are the        *)
(* one-lexeme sequences None, NoHref and NoElem, which are no text.  The    *)
(* labels with non-ASCII characters are written as the words "rsaquo",     *)
(* "raquo", "urmatorul_d" and "urmator_d".                                 *)
(***************************************************************************)
EXTENDS Integers, Sequences, FiniteSets, TLC

VARIABLES
    \* ---- inputs and result of one call of a scraper function
    soup,          \* the parsed document handed to the function
    url,           \* current_url / base_url / product_url of the call
    op,            \* "init" before the call, else the function applied
    result,        \* what the call returned
    \* ---- the process (main, run_single_check, run_continuous_monitoring)
    pc,            \* position of the process
    mode,          \* "single" or "bot"
    exit_code,     \* -1 while running, else the status of sys.exit / return
    config,        \* state of bot_config.json on disk
    file,          \* content of bsg_products.json on disk
    storage,       \* ProductStorage.products (in memory)
    known_ids,     \* known_ids local of the running cycle
    check_count,   \* check_count of run_continuous_monitoring
    now,           \* datetime.now(), in check intervals
    current_url,   \* scrape_all_pages local
    page_count,    \* scrape_all_pages local
    all_products,  \* scrape_all_pages local, then current_products
    fetched,       \* history: URLs fetched by the running scrape_all_pages
    pages,         \* history: product list of every page that was extended
    stop,          \* history: why the while loop of the last scrape_all_pages
                   \* ended, "none" while a loop is running
    new_products,  \* new_products of the last processed cycle
    sent,          \* history: messages posted in the running cycle
    notify_calls,  \* history: calls of send_product_notification, this cycle
    saves,         \* history: outcome of every storage.save, this cycle
    reported       \* history: the ids that the finished cycles of this
                   \* process had among their new products

fnVars   == <<soup, url, op, result>>
procVars == <<pc, mode, exit_code, config, file, storage, known_ids, check_count, now,
              current_url, page_count, all_products, fetched, pages, stop,
              new_products, sent, notify_calls, saves, reported>>
vars     == <<fnVars, procVars>>

-----------------------------------------------------------------------------
(* Lexemes and sentinels *)

H      == "https://bsgmag.ro"
None   == <<"None">>
NoHref == <<"NoHref">>
NoElem == <<"NoElem">>

Digits == {"0", "1", "2", "3", "4", "5", "6", "7", "8", "9"}

DigitVal(d) ==
    CASE d = "0" -> 0 [] d = "1" -> 1 [] d = "2" -> 2 [] d = "3" -> 3
      [] d = "4" -> 4 [] d = "5" -> 5 [] d = "6" -> 6 [] d = "7" -> 7
      [] d = "8" -> 8 [] d = "9" -> 9

DigitOf(n) ==
    CASE n = 0 -> "0" [] n = 1 -> "1" [] n = 2 -> "2" [] n = 3 -> "3"
      [] n = 4 -> "4" [] n = 5 -> "5" [] n = 6 -> "6" [] n = 7 -> "7"
      [] n = 8 -> "8" [] n = 9 -> "9"

\* str.isdigit(): non-empty and all digits
IsDigit(s) == Len(s) > 0 /\ \A i \in 1..Len(s) : s[i] \in Digits

\* int(s) for a string of digits
RECURSIVE IntOf(_)
IntOf(s) == IF Len(s) = 0 THEN 0
            ELSE 10 * IntOf(SubSeq(s, 1, Len(s) - 1)) + DigitVal(s[Len(s)])

\* str(n) for n >= 0
RECURSIVE StrOf(_)
StrOf(n) == IF n < 10 THEN <<DigitOf(n)>>
            ELSE StrOf(n \div 10) \o <<DigitOf(n % 10)>>

\* s.find(t) + 1: the first index of lexeme t in s, or 0
IndexOf(s, t) ==
    IF \E i \in 1..Len(s) : s[i] = t
    THEN CHOOSE i \in 1..Len(s) : s[i] = t /\ \A j \in 1..(i - 1) : s[j] # t
    ELSE 0

\* s.rfind(t) + 1
LastIndexOf(s, t) ==
    IF \E i \in 1..Len(s) : s[i] = t
    THEN CHOOSE i \in 1..Len(s) : s[i] = t /\ \A j \in (i + 1)..Len(s) : s[j] # t
    ELSE 0

\* s.split(sep)
RECURSIVE Split(_, _)
Split(s, sep) ==
    LET i == IndexOf(s, sep) IN
    IF i = 0 THEN <<s>>
    ELSE <<SubSeq(s, 1, i - 1)>> \o Split(SubSeq(s, i + 1, Len(s)), sep)

\* s.strip(c)
RECURSIVE StripChar(_, _)
StripChar(s, c) ==
    IF Len(s) = 0 THEN s
    ELSE IF s[1] = c THEN StripChar(Tail(s), c)
    ELSE IF s[Len(s)] = c THEN StripChar(SubSeq(s, 1, Len(s) - 1), c)
    ELSE s

\* s.rstrip(c)
RECURSIVE RStripChar(_, _)
RStripChar(s, c) ==
    IF Len(s) > 0 /\ s[Len(s)] = c THEN RStripChar(SubSeq(s, 1, Len(s) - 1), c)
    ELSE s

\* str.lower() on the words the model uses with capitals
LowerLexeme(w) ==
    CASE w = "Next" -> "next"
      [] w = "NEXT" -> "next"
      [] w = "Urmatorul" -> "urmatorul"
      [] OTHER -> w

Lower(s) == [i \in 1..Len(s) |-> LowerLexeme(s[i])]

\* Tag.get_text(strip=True) of an element with one text node
get_text(s) == StripChar(s, " ")

-----------------------------------------------------------------------------
(* urllib.parse *)

\* urlparse(u).path
UrlPath(u) ==
    LET rest == IF Len(u) > 0 /\ u[1] = H THEN Tail(u) ELSE u
        q    == IndexOf(rest, "?")
    IN IF q = 0 THEN rest ELSE SubSeq(rest, 1, q - 1)

\* urlparse(u).query
UrlQuery(u) ==
    LET q == IndexOf(u, "?") IN
    IF q = 0 THEN <<>> ELSE SubSeq(u, q + 1, Len(u))

\* parse_qs(query)[key], the list of the non-blank values of key, in order
RECURSIVE ValuesOf(_, _)
ValuesOf(fields, key) ==
    IF Len(fields) = 0 THEN <<>>
    ELSE LET f  == fields[1]
             e  == IndexOf(f, "=")
             nm == IF e = 0 THEN f ELSE SubSeq(f, 1, e - 1)
             vl == IF e = 0 THEN <<>> ELSE SubSeq(f, e + 1, Len(f))
         IN (IF nm = <<key>> /\ Len(vl) > 0 THEN <<vl>> ELSE <<>>)
            \o ValuesOf(Tail(fields), key)

parse_qs(query, key) == ValuesOf(Split(query, "&"), key)

\* urljoin(base, href) for an absolute base and an href without dot segments
urljoin(base, href) ==
    IF Len(href) = 0 THEN base
    ELSE IF href[1] = H THEN href
    ELSE IF href[1] = "/" THEN <<H>> \o href
    ELSE LET q      == IndexOf(base, "?")
             noq    == IF q = 0 THEN base ELSE SubSeq(base, 1, q - 1)
         IN IF href[1] = "?" THEN noq \o href
            ELSE SubSeq(noq, 1, LastIndexOf(noq, "/")) \o href

-----------------------------------------------------------------------------
(* BSGScraper.get_current_page_number *)

\* the part of u before an optional final "/"
BeforeSlash(u) ==
    IF Len(u) > 0 /\ u[Len(u)] = "/" THEN SubSeq(u, 1, Len(u) - 1) ELSE u

\* length of the longest run of digits that ends s
RECURSIVE TrailingDigits(_)
TrailingDigits(s) ==
    IF Len(s) > 0 /\ s[Len(s)] \in Digits
    THEN 1 + TrailingDigits(SubSeq(s, 1, Len(s) - 1))
    ELSE 0

\* re.search(r'/p(\d+)/?$', u): index of the "/" that starts the match, or 0
PageSuffixStart(u) ==
    LET b == BeforeSlash(u)
        n == TrailingDigits(b)
        s == Len(b) - n - 1
    IN IF n > 0 /\ s >= 1 /\ b[s] = "/" /\ b[s + 1] = "p" THEN s ELSE 0

\* match.group(1)
PageSuffixDigits(u) ==
    LET b == BeforeSlash(u) IN SubSeq(b, Len(b) - TrailingDigits(b) + 1, Len(b))

\* the query value that get_current_page_number hands to int(), or None
PageParam(u) ==
    LET q == UrlQuery(u) IN
    IF Len(parse_qs(q, "page")) > 0 THEN parse_qs(q, "page")[1]
    ELSE IF Len(parse_qs(q, "pag")) > 0 THEN parse_qs(q, "pag")[1]
    ELSE None

\* get_current_page_number raises ValueError: int() of a non-number (the
\* values of the model are strings of digits and words)
page_number_raises(u) ==
    /\ PageSuffixStart(u) = 0
    /\ PageParam(u) # None
    /\ ~IsDigit(PageParam(u))

get_current_page_number(u) ==
    IF PageSuffixStart(u) # 0 THEN IntOf(PageSuffixDigits(u))
    ELSE IF PageParam(u) # None THEN IntOf(PageParam(u))
    ELSE 1

-----------------------------------------------------------------------------
(* BSGScraper.find_next_page                                               *)
(* soup.anchors: the <a> elements of the document outside product cards,   *)
(* in document order, each [cls_next, pag, text, href]: cls_next is        *)
(* "matches a.next, a[rel=next]", pag is "matches .pagination a, .pager a, *)
(* nav a, ul.page-numbers a", href is NoHref when the attribute is absent. *)

Raise == <<"ValueError">>

NextLabels == {<<"next">>, <<"urmatorul_d">>, <<"rsaquo">>, <<"raquo">>,
               <<"urmatorul">>, <<"urmator_d">>}

\* the first of a set of indices in document order, or 0 for no match
\* (select_one, and the for loops that stop at their first match)
First(S) == IF S = {} THEN 0 ELSE CHOOSE i \in S : \A j \in S : i <= j

\* soup.select_one('a.next, a[rel="next"]')
ExplicitNext(as) == First({i \in 1..Len(as) : as[i].cls_next})

\* the loop over pagination_links that looks for a next label
LabelNext(as) ==
    First({i \in 1..Len(as) :
              as[i].pag /\ Lower(get_text(as[i].text)) \in NextLabels})

\* next_link after the first two lookups: an index of as, or 0 for None
NextLink(as) ==
    IF ExplicitNext(as) # 0 THEN ExplicitNext(as) ELSE LabelNext(as)

\* a link of page_links that the loop does not skip
Scanned(a) == a.pag /\ a.href # NoHref /\ Len(a.href) > 0

\* the page-number loop stops at the first link whose page number cannot be
\* computed (ValueError) or is current_page + 1
ScanStop(as, cur) ==
    First({i \in 1..Len(as) :
              /\ Scanned(as[i])
              /\ \/ page_number_raises(urljoin(cur, as[i].href))
                 \/ get_current_page_number(urljoin(cur, as[i].href))
                      = get_current_page_number(cur) + 1})

\* truthiness of next_link.get('href')
HasHref(a) == a.href # NoHref /\ Len(a.href) > 0

\* '/produse-recente' in cur
InListingNever(u) == FALSE
InListing(u) ==
    \E i \in 1..(Len(u) - 1) : u[i] = "/" /\ u[i + 1] = "produse-recente"

\* lines 340-347: URL synthesis
SynthesizeSamePage(cur) ==
    IF PageSuffixStart(cur) # 0
    THEN SubSeq(cur, 1, PageSuffixStart(cur) - 1)
         \o <<"/", "p">> \o StrOf(get_current_page_number(cur))
    ELSE IF get_current_page_number(cur) = 1 /\ InListing(cur)
    THEN RStripChar(cur, "/")
    ELSE None
Synthesize(cur) ==
    IF PageSuffixStart(cur) # 0
    THEN SubSeq(cur, 1, PageSuffixStart(cur) - 1)
         \o <<"/", "p">> \o StrOf(get_current_page_number(cur) + 1)
    ELSE IF get_current_page_number(cur) = 1 /\ InListing(cur)
    THEN RStripChar(cur, "/") \o <<"/", "p", "2">>
    ELSE None

\* the page-number scan is entered only when no next link was matched
ScanAlways(as) == TRUE
ScanEntered(as) == NextLink(as) = 0

find_next_page(sp, cur) ==
    LET as   == sp.anchors
        nl   == NextLink(as)
        stop_ == ScanStop(as, cur)
    IN IF page_number_raises(cur) THEN Raise
       ELSE IF ScanEntered(as) /\ stop_ # 0
       THEN (IF page_number_raises(urljoin(cur, as[stop_].href))
             THEN Raise
             ELSE urljoin(cur, as[stop_].href))
       ELSE IF nl # 0 /\ HasHref(as[nl])
       THEN urljoin(cur, as[nl].href)
       ELSE Synthesize(cur)

-----------------------------------------------------------------------------
(* BSGScraper.extract_product_id *)

extract_product_id_query_first(product_url) ==
    LET path_parts == Split(StripChar(UrlPath(product_url), "/"), "/")
        last       == path_parts[Len(path_parts)]
        ids        == parse_qs(UrlQuery(product_url), "id")
    IN IF Len(ids) > 0 THEN ids[1]
       ELSE IF IsDigit(last) THEN last
       ELSE product_url
extract_product_id(product_url) ==
    LET path_parts == Split(StripChar(UrlPath(product_url), "/"), "/")
        last       == path_parts[Len(path_parts)]
        ids        == parse_qs(UrlQuery(product_url), "id")
    IN IF IsDigit(last) THEN last
       ELSE IF Len(ids) > 0 THEN ids[1]
       ELSE product_url

-----------------------------------------------------------------------------
(* BSGScraper.extract_products                                             *)
(* soup.cards: the elements whose class contains "product", in document    *)
(* order, each [explicit, links, name, price, img]: explicit is "matches   *)
(* .product-item, .product, article.product, .item-product"; links are the *)
(* <a> elements inside it, each [href, text, plink] with plink "has class  *)
(* product-link"; name and price are the raw text of the first element     *)
(* that matches the name and price selectors, or NoElem; img is the src of *)
(* the first <img>, NoHref for an <img> without src, NoElem for no <img>.  *)

ProductWords == {"product", "products", "produs", "produse", "produse-recente"}

\* href*="/product" or href*="/produs"
HasProductPath(href) ==
    /\ href # NoHref
    /\ \E i \in 1..(Len(href) - 1) : href[i] = "/" /\ href[i + 1] \in ProductWords

\* the two-tier selection of product_elements
product_elements(sp) ==
    LET precise == SelectSeq(sp.cards, LAMBDA c : c.explicit) IN
    IF Len(precise) > 0 THEN precise ELSE sp.cards

\* link_elem: an index of element.links, or 0 when no link is found
link_elem(element) ==
    LET ls     == element.links
        byPath == First({i \in 1..Len(ls) : HasProductPath(ls[i].href) \/ ls[i].plink})
    IN IF byPath # 0 THEN byPath
       ELSE First({i \in 1..Len(ls) : ls[i].href # NoHref})

\* the candidate is dropped: no link, or link_elem['href'] raises KeyError
Skipped(element) ==
    \/ link_elem(element) = 0
    \/ element.links[link_elem(element)].href = NoHref

\* the name cascade ends at the link text, and nothing checks the text
NameOf(element) ==
    LET lnk == element.links[link_elem(element)] IN
    get_text(IF element.name # NoElem THEN element.name ELSE lnk.text)

\* the record appended for one candidate
PriceOf(element) ==
    IF element.price # NoElem THEN get_text(element.price) ELSE <<"N/A">>

ProductOf(element, base_url) ==
    LET lnk         == element.links[link_elem(element)]
        product_url == urljoin(base_url, lnk.href)
    IN [id        |-> extract_product_id(product_url),
        name      |-> NameOf(element),
        price     |-> PriceOf(element),
        url       |-> product_url,
        image_url |-> IF element.img # NoElem /\ element.img # NoHref
                         /\ Len(element.img) > 0
                      THEN urljoin(base_url, element.img)
                      ELSE None]

RECURSIVE ExtractFrom(_, _)
ExtractFrom(elements, base_url) ==
    IF Len(elements) = 0 THEN <<>>
    ELSE (IF Skipped(elements[1]) THEN <<>>
          ELSE <<ProductOf(elements[1], base_url)>>)
         \o ExtractFrom(Tail(elements), base_url)

extract_products(sp, base_url) == ExtractFrom(product_elements(sp), base_url)

-----------------------------------------------------------------------------
(* Inputs of the function specifications *)

MaxAnchors == 2
MaxCards   == 2

SeqsUpTo(S, n) == UNION {[1..k -> S] : k \in 0..n}

BASE_URL == <<H, "/", "catalog", "/", "produse-recente">>

PathP2  == <<"/", "catalog", "/", "produse-recente", "/", "p", "2">>
UrlP2   == <<H>> \o PathP2
UrlP3   == BASE_URL \o <<"/", "p", "3">>
UrlAlt  == <<H, "/", "catalog", "/", "alt">>

\* current URLs: the base, /p2 with and without final slash, /p0, a page
\* query parameter, a listing that is not produse-recente, a page that is no
\* number
CurUrls ==
    { BASE_URL, UrlP2, UrlP2 \o <<"/">>,
      BASE_URL \o <<"/", "p", "0">>,
      BASE_URL \o <<"?", "page", "=", "2">>,
      UrlAlt,
      BASE_URL \o <<"?", "page", "=", "x">> }

AnchorHrefs == { NoHref, <<>>, PathP2, UrlP3, <<"?", "page", "=", "3">>,
                 <<"?", "page", "=", "x">> }
AnchorTexts == { <<" ", "Next", " ">>, <<"3">> }

Anchors ==
    { [cls_next |-> k[1], pag |-> k[2], text |-> t, href |-> h] :
        k \in {<<TRUE, FALSE>>, <<FALSE, TRUE>>, <<TRUE, TRUE>>},
        t \in AnchorTexts, h \in AnchorHrefs }

\* product cards: with a product link, a plain link, a link without href,
\* a link to a path without a number, no link; names that are missing,
\* blank or present; with and without price and image
CardLinks ==
    { <<>>,
      <<[href |-> <<"/", "produs", "/", "1", "2">>, text |-> <<"Ceas">>, plink |-> FALSE]>>,
      <<[href |-> <<"item", "?", "id", "=", "7">>, text |-> <<>>, plink |-> FALSE]>>,
      <<[href |-> NoHref, text |-> <<"Ceas">>, plink |-> TRUE]>>,
      <<[href |-> <<>>, text |-> <<" ">>, plink |-> FALSE]>> }

\* name, price and image of a card: nothing, all present, or blank
CardBodies ==
    { [name |-> NoElem, price |-> NoElem, img |-> NoElem],
      [name |-> <<" ", "Ceas", " ">>, price |-> <<"10", " ", "lei">>,
       img |-> <<"/", "img", "/", "1">>],
      [name |-> <<" ">>, price |-> <<>>, img |-> NoHref] }

Cards ==
    { [explicit |-> e, links |-> l, name |-> b.name, price |-> b.price, img |-> b.img] :
        e \in BOOLEAN, l \in CardLinks, b \in CardBodies }

ExtractUrls ==
    { BASE_URL, UrlP2,
      <<H, "/", "produs", "/", "4", "2", "/", "?", "id", "=", "7">>,
      <<H, "/", "item", "?", "x", "=", "1", "&", "id", "=", "7">> }

\* what extract_product_id is also applied to: a bare id, an id parameter
\* without value, an id parameter given twice
IdStrings ==
    { <<"4", "2">>,
      <<H, "/", "item", "?", "id", "=">>,
      <<H, "/", "item", "?", "id", "=", "7", "&", "id", "=", "8">> }

\* the process variables while only a function is called
ProcOff ==
    /\ pc = "off" /\ mode = "none" /\ exit_code = -1 /\ config = "ok"
    /\ file = [state |-> "absent", data |-> <<>>]
    /\ storage = <<>> /\ known_ids = {}
    /\ check_count = 0 /\ now = 0
    /\ current_url = None /\ page_count = 0 /\ all_products = <<>>
    /\ fetched = <<>> /\ pages = <<>> /\ stop = "none"
    /\ new_products = <<>> /\ sent = <<>> /\ notify_calls = 0 /\ saves = <<>>
    /\ reported = {}

-----------------------------------------------------------------------------
(* Specification of the pagination resolver: one call on a bounded input *)

InitPagination ==
    /\ soup \in [anchors : SeqsUpTo(Anchors, MaxAnchors), cards : {<<>>}]
    /\ url \in CurUrls
    /\ op = "init"
    /\ result = None
    /\ ProcOff

CallFindNextPage ==
    /\ op = "init"
    /\ op' = "find_next_page"
    /\ result' = find_next_page(soup, url)
    /\ UNCHANGED <<soup, url, procVars>>

CallGetCurrentPageNumber ==
    /\ op = "init"
    /\ op' = "get_current_page_number"
    /\ result' = IF page_number_raises(url) THEN Raise
                 ELSE StrOf(get_current_page_number(url))
    /\ UNCHANGED <<soup, url, procVars>>

NextPagination == CallFindNextPage \/ CallGetCurrentPageNumber

SpecPagination == InitPagination /\ [][NextPagination]_vars

-----------------------------------------------------------------------------
(* Specification of the extractor: one call on a bounded input *)

InitExtract ==
    /\ soup \in [anchors : {<<>>}, cards : SeqsUpTo(Cards, MaxCards)]
    /\ url \in ExtractUrls \cup IdStrings
    /\ op = "init"
    /\ result = None
    /\ ProcOff

\* base_url is the URL of a fetched page
CallExtractProducts ==
    /\ op = "init"
    /\ url \in ExtractUrls
    /\ op' = "extract_products"
    /\ result' = extract_products(soup, url)
    /\ UNCHANGED <<soup, url, procVars>>

CallExtractProductId ==
    /\ op = "init"
    /\ op' = "extract_product_id"
    /\ result' = extract_product_id(url)
    /\ UNCHANGED <<soup, url, procVars>>

NextExtract == CallExtractProducts \/ CallExtractProductId

SpecExtract == InitExtract /\ [][NextExtract]_vars

-----------------------------------------------------------------------------
(* ProductStorage *)

\* _load: a missing file, a file that cannot be opened and a file that is
\* no JSON ("absent", "corrupt") are the empty dictionary
load(f) == IF f.state = "json" THEN f.data ELSE <<>>

\* _load raises: the bytes of the file are no UTF-8 text, and the
\* UnicodeDecodeError of f.read() is neither a JSONDecodeError nor an IOError
load_raises(f) == f.state = "undecodable"

\* save: io is what the file system does with the write; a failure of
\* open() leaves the file, a failure while dumping leaves a truncated file
SaveOutcomes == {"ok", "open_failed", "write_failed"}

save(st, f, io) ==
    CASE io = "ok"           -> [state |-> "json", data |-> st]
      [] io = "open_failed"  -> f
      [] io = "write_failed" -> [state |-> "corrupt", data |-> <<>>]

get_known_ids_empty(st) == {}
get_known_ids(st) == DOMAIN st

Stored(p, t) ==
    [id |-> p.id, name |-> p.name, price |-> p.price, url |-> p.url,
     image_url |-> p.image_url, first_seen |-> t]

\* product_id not in self.products, negated
IsStoredNever(st, id) == FALSE
IsStored(st, id) == id \in DOMAIN st

add_products_none(st, products, t) == st
RECURSIVE add_products(_, _, _)
add_products(st, products, t) ==
    IF Len(products) = 0 THEN st
    ELSE LET p == products[1] IN
         add_products(IF IsStored(st, p.id) THEN st
                      ELSE (p.id :> Stored(p, t)) @@ st,
                      Tail(products), t)

-----------------------------------------------------------------------------
(* TelegramNotifier *)

LongText == "lorem-ipsum"

\* len() of a lexeme; LongText stands for a text of 1400 characters
LexLen(w) == IF w = LongText THEN 1400 ELSE Len(w)

RECURSIVE CharLen(_)
CharLen(s) == IF Len(s) = 0 THEN 0 ELSE LexLen(s[1]) + CharLen(Tail(s))

\* len() of the lines of the products from number i on
RECURSIVE EntriesLen(_, _)
EntriesLen(products, i) ==
    IF Len(products) = 0 THEN 0
    ELSE 51 + Len(StrOf(i)) + CharLen(products[1].name)
         + CharLen(products[1].price) + CharLen(products[1].url)
         + EntriesLen(Tail(products), i + 1)

\* len(message) of send_product_notification
MessageLen(products) ==
    (IF Len(products) = 1 THEN 38 ELSE 40 + Len(StrOf(Len(products))))
    + EntriesLen(products, 1)

\* products[i:i+5] for i in range(0, len(products), 5)
BatchesFirstOnly(products) ==
    IF Len(products) <= 5 THEN <<products>> ELSE <<SubSeq(products, 1, 5)>>
RECURSIVE Batches(_)
Batches(products) ==
    IF Len(products) = 0 THEN <<>>
    ELSE IF Len(products) <= 5 THEN <<products>>
    ELSE <<SubSeq(products, 1, 5)>> \o Batches(SubSeq(products, 6, Len(products)))

\* the messages of one send_product_notification call, in order
Chunks(products) ==
    IF Len(products) = 0 THEN <<>>
    ELSE IF MessageLen(products) > 4000 THEN Batches(products)
    ELSE <<products>>

\* send_message: delivered tells whether requests.post succeeded; a
\* RequestException is caught and reported as False
send_message_raises(delivered) == IF delivered THEN "True" ELSE "raise"
send_message(delivered) == IF delivered THEN "True" ELSE "False"

Ids(products) == [i \in 1..Len(products) |-> products[i].id]

IdSet(products) == {products[i].id : i \in 1..Len(products)}

\* the posts made by send_product_notification, up to one that raises
RECURSIVE Posts(_, _)
Posts(chunks, oks) ==
    IF Len(chunks) = 0 THEN <<>>
    ELSE <<[kind |-> "products", ids |-> Ids(chunks[1]), ok |-> oks[1]]>>
         \o (IF send_message(oks[1]) = "raise" THEN <<>>
             ELSE Posts(Tail(chunks), Tail(oks)))

\* posts and outcome of send_product_notification
send_product_notification(products, oks) ==
    LET chunks == Chunks(products)
        posts  == Posts(chunks, oks)
    IN [posts |-> posts,
        ret   |-> IF \E i \in 1..Len(posts) : send_message(posts[i].ok) = "raise"
                  THEN "raise"
                  ELSE IF Len(products) = 0 \/ MessageLen(products) > 4000
                  THEN "True"
                  ELSE send_message(oks[1])]

StatusPost(ok) == [kind |-> "status", ids |-> <<>>, ok |-> ok]

-----------------------------------------------------------------------------
(* BSGScraper.scrape_all_pages: the web site *)

\* fetch_page raises (timeout, connection error, HTTP status)
FetchError == [ok |-> FALSE, doc |-> [anchors |-> <<>>, cards |-> <<>>]]

SiteCard(id, name) ==
    [explicit |-> TRUE,
     links    |-> <<[href |-> <<"/", "produs", "/">> \o id, text |-> name,
                     plink |-> FALSE]>>,
     name |-> NoElem, price |-> NoElem, img |-> NoElem]

Id101 == <<"1", "0", "1">>
Id102 == <<"1", "0", "2">>
Id103 == <<"1", "0", "3">>

NextTo(href) ==
    [cls_next |-> TRUE, pag |-> FALSE, text |-> <<"Next">>, href |-> href]

\* the pages the site may answer with: two products and no pagination
\* markup; one product and a next link to the base URL (a cycle); a renamed
\* product and a next link to a listing without page number; a page-number
\* link that is no number; a page without products
SiteDocs ==
    { [anchors |-> <<>>,
       cards   |-> <<SiteCard(Id101, <<LongText>>), SiteCard(Id102, <<LongText>>)>>],
      [anchors |-> <<NextTo(BASE_URL)>>,
       cards   |-> <<SiteCard(Id103, <<LongText>>)>>],
      [anchors |-> <<NextTo(<<"/", "catalog", "/", "alt">>)>>,
       cards   |-> <<SiteCard(Id102, <<"Ceas">>)>>],
      [anchors |-> <<[cls_next |-> FALSE, pag |-> TRUE, text |-> <<"2">>,
                      href |-> <<"?", "page", "=", "x">>]>>,
       cards   |-> <<SiteCard(Id103, <<LongText>>), SiteCard(Id101, <<LongText>>)>>],
      [anchors |-> <<>>, cards |-> <<>>] }

Responses == {[ok |-> TRUE, doc |-> d] : d \in SiteDocs} \cup {FetchError}

\* while current_url and page_count < 3
LoopConditionOffByOne(u, n) == u # None /\ n <= 3
LoopCondition(u, n) == u # None /\ n < 3

\* all_products.extend(products)
ExtendReplace(all, products) == products
Extend(all, products) == all \o products

\* [p for p in current_products if p['id'] not in known_ids]
NewProductsUnfiltered(products, known) == products
NewProducts(products, known) == SelectSeq(products, LAMBDA p : p.id \notin known)

\* if new_products: the guard of the storage update
HasNewAlways(new) == TRUE
HasNew(new) == Len(new) > 0

\* where the monitoring loop goes after a scrape without products
AfterEmptyScrapeExit == "exited"
AfterEmptyScrape == "sleep"

-----------------------------------------------------------------------------
(* The process: main, run_single_check, run_continuous_monitoring *)

MaxChecks == 2

Configs == {"missing", "unreadable", "no_token", "placeholder_token",
            "no_chat", "placeholder_chat", "ok"}

\* BotConfig.load_config: "continue", or the status of sys.exit
load_config_ignored(c) == -1
load_config(c) ==
    CASE c = "missing" -> 0
      [] c = "ok"      -> -1
      [] OTHER         -> 1

Record101 ==
    [id |-> Id101, name |-> <<"Ceas">>, price |-> <<"N/A">>,
     url |-> <<H, "/", "produs", "/">> \o Id101, image_url |-> None,
     first_seen |-> 0]

InitialFiles ==
    { [state |-> "absent",  data |-> <<>>],
      [state |-> "corrupt", data |-> <<>>],
      [state |-> "undecodable", data |-> <<>>],
      [state |-> "json",    data |-> <<>>],
      [state |-> "json",    data |-> (Id101 :> Record101)] }

FnOff ==
    /\ soup = [anchors |-> <<>>, cards |-> <<>>]
    /\ url = None /\ op = "off" /\ result = None

Init ==
    /\ FnOff
    /\ pc = "main" /\ mode = "none" /\ exit_code = -1
    /\ config \in Configs
    /\ file \in InitialFiles
    /\ storage = <<>> /\ known_ids = {}
    /\ check_count = 0 /\ now = 1
    /\ current_url = None /\ page_count = 0 /\ all_products = <<>>
    /\ fetched = <<>> /\ pages = <<>> /\ stop = "none"
    /\ new_products = <<>> /\ sent = <<>> /\ notify_calls = 0 /\ saves = <<>>
    /\ reported = {}

scrapeVars == <<current_url, page_count, all_products, fetched, pages, stop>>
cycleVars  == <<new_products, sent, notify_calls, saves>>

\* the first lines of scrape_all_pages
StartScrape ==
    /\ current_url' = BASE_URL
    /\ page_count' = 0
    /\ all_products' = <<>>
    /\ fetched' = <<>> /\ pages' = <<>> /\ UNCHANGED stop

\* main with no argument: run_single_check up to the call of scrape_all_pages;
\* an exception of ProductStorage() reaches the handler at the end of the
\* file, which exits with status 1
MainSingle ==
    /\ pc = "main"
    /\ mode' = "single"
    /\ IF load_raises(file)
       THEN /\ pc' = "exited" /\ exit_code' = 1
            /\ UNCHANGED <<storage, known_ids, scrapeVars>>
       ELSE /\ storage' = load(file)
            /\ known_ids' = get_known_ids(load(file))
            /\ StartScrape
            /\ pc' = "scrape"
            /\ UNCHANGED exit_code
    /\ UNCHANGED <<fnVars, config, file, check_count, now, cycleVars, reported>>

\* main with --help
MainHelp ==
    /\ pc = "main"
    /\ mode' = "help"
    /\ pc' = "exited" /\ exit_code' = 0
    /\ UNCHANGED <<fnVars, config, file, storage, known_ids, check_count, now,
                   scrapeVars, cycleVars, reported>>

\* main with any other argument
MainUnknown ==
    /\ pc = "main"
    /\ mode' = "unknown"
    /\ pc' = "exited" /\ exit_code' = 1
    /\ UNCHANGED <<fnVars, config, file, storage, known_ids, check_count, now,
                   scrapeVars, cycleVars, reported>>

\* main with --bot: run_continuous_monitoring up to the monitoring loop;
\* connected is the answer of test_connection, delivered that of the
\* startup message
MainBot ==
    /\ pc = "main"
    /\ mode' = "bot"
    /\ \E connected \in BOOLEAN, delivered \in BOOLEAN :
         IF load_config(config) # -1
         THEN /\ pc' = "exited" /\ exit_code' = load_config(config)
              /\ config' = IF config = "missing" THEN "no_token" ELSE config
              /\ UNCHANGED <<storage, sent>>
         ELSE IF load_raises(file)
         THEN /\ pc' = "exited" /\ exit_code' = 1
              /\ UNCHANGED <<config, storage, sent>>
         ELSE /\ storage' = load(file)
              /\ UNCHANGED config
              /\ IF connected
                 THEN /\ sent' = <<StatusPost(delivered)>>
                      /\ pc' = "loop" /\ UNCHANGED exit_code
                 ELSE /\ pc' = "exited" /\ exit_code' = 1
                      /\ UNCHANGED sent
    /\ UNCHANGED <<fnVars, file, known_ids, check_count, now, scrapeVars,
                   new_products, notify_calls, saves, reported>>

\* the head of the monitoring loop, up to the call of scrape_all_pages
BeginCycle ==
    /\ pc = "loop"
    /\ check_count < MaxChecks
    /\ check_count' = check_count + 1
    /\ StartScrape
    /\ new_products' = <<>> /\ sent' = <<>> /\ notify_calls' = 0 /\ saves' = <<>>
    /\ pc' = "scrape"
    /\ UNCHANGED <<fnVars, mode, exit_code, config, file, storage, known_ids, now,
                   reported>>

\* one iteration of the while loop of scrape_all_pages; resp is what the
\* site answers to the fetch of current_url
ScrapePage ==
    /\ pc = "scrape"
    /\ LoopCondition(current_url, page_count)
    /\ \E resp \in Responses :
         LET products == extract_products(resp.doc, current_url)
             next_url == find_next_page(resp.doc, current_url)
             broke    == IF ~resp.ok THEN "fetch_failure"
                         ELSE IF Len(products) = 0 THEN "no_products"
                         ELSE IF next_url = Raise THEN "resolver_error"
                         ELSE IF next_url = None THEN "no_next"
                         ELSE IF next_url = current_url THEN "same_url"
                         ELSE "none"
             extended == resp.ok /\ Len(products) > 0
         IN /\ page_count' = page_count + 1
            /\ fetched' = Append(fetched, current_url)
            /\ all_products' = IF extended THEN Extend(all_products, products)
                               ELSE all_products
            /\ pages' = IF extended THEN Append(pages, products) ELSE pages
            /\ current_url' = IF broke = "none" THEN next_url ELSE current_url
            /\ stop' = IF broke # "none" THEN broke
                       ELSE IF ~LoopCondition(next_url, page_count + 1)
                       THEN "page_limit" ELSE "none"
            /\ pc' = IF broke # "none" \/ ~LoopCondition(next_url, page_count + 1)
                     THEN "scraped" ELSE "scrape"
    /\ UNCHANGED <<fnVars, mode, exit_code, config, file, storage, known_ids,
                   check_count, now, cycleVars, reported>>

\* run_single_check after scrape_all_pages returned
SingleFinish ==
    /\ pc = "scraped" /\ mode = "single"
    /\ \E io \in SaveOutcomes :
         LET new == NewProducts(all_products, known_ids) IN
         IF Len(all_products) = 0
         THEN UNCHANGED <<storage, file, new_products, saves, reported>>
         ELSE /\ new_products' = new
              /\ reported' = reported \cup IdSet(new)
              /\ IF HasNew(new)
                 THEN /\ storage' = add_products(storage, new, now)
                      /\ file' = save(add_products(storage, new, now), file, io)
                      /\ saves' = Append(saves, io)
                 ELSE UNCHANGED <<storage, file, saves>>
    /\ pc' = "exited" /\ exit_code' = 0
    /\ UNCHANGED <<fnVars, mode, config, known_ids, check_count, now, scrapeVars,
                   sent, notify_calls>>

\* the body of the monitoring loop after scrape_all_pages returned; oks are
\* the outcomes of the posts, io that of the write
BotProcess ==
    /\ pc = "scraped" /\ mode = "bot"
    /\ IF Len(all_products) = 0
       THEN /\ pc' = AfterEmptyScrape
            /\ exit_code' = IF AfterEmptyScrape = "exited" THEN 0 ELSE exit_code
            /\ UNCHANGED <<storage, file, known_ids, cycleVars, reported>>
       ELSE LET known == get_known_ids(storage)
                new   == NewProducts(all_products, known)
            IN /\ known_ids' = known
               /\ new_products' = new
               /\ reported' = reported \cup IdSet(new)
               /\ pc' = "sleep"
               /\ UNCHANGED exit_code
               /\ IF HasNew(new)
                  THEN \E oks \in [1..Len(Chunks(new)) -> BOOLEAN],
                          io \in SaveOutcomes :
                         LET note == send_product_notification(new, oks) IN
                         /\ notify_calls' = notify_calls + 1
                         /\ sent' = sent \o note.posts
                         /\ IF note.ret = "raise"
                            THEN UNCHANGED <<storage, file, saves>>
                            ELSE /\ storage' = add_products(storage, new, now)
                                 /\ file' = save(add_products(storage, new, now),
                                                 file, io)
                                 /\ saves' = Append(saves, io)
                  ELSE UNCHANGED <<storage, file, sent, notify_calls, saves>>
    /\ UNCHANGED <<fnVars, mode, config, check_count, now, scrapeVars>>

\* time.sleep(Config.CHECK_INTERVAL)
Sleep ==
    /\ pc = "sleep"
    /\ now' = now + 1
    /\ pc' = "loop"
    /\ UNCHANGED <<fnVars, mode, exit_code, config, file, storage, known_ids,
                   check_count, scrapeVars, cycleVars, reported>>

\* KeyboardInterrupt in the monitoring loop: the stop message is posted and
\* the process exits, which ends the locals of the loop and of the scrape
Interrupt ==
    /\ mode = "bot"
    /\ pc \in {"loop", "scrape", "scraped", "sleep"}
    /\ \E delivered \in BOOLEAN : sent' = <<StatusPost(delivered)>>
    /\ pc' = "interrupted" /\ exit_code' = 0
    /\ current_url' = None /\ page_count' = 0 /\ all_products' = <<>>
    /\ fetched' = <<>> /\ pages' = <<>> /\ stop' = "none"
    /\ new_products' = <<>> /\ notify_calls' = 0 /\ saves' = <<>>
    /\ known_ids' = {}
    /\ UNCHANGED <<fnVars, mode, config, file, storage, check_count, now, reported>>

Next ==
    \/ MainSingle \/ MainHelp \/ MainUnknown \/ MainBot
    \/ BeginCycle \/ ScrapePage \/ SingleFinish \/ BotProcess \/ Sleep
    \/ Interrupt

Spec == Init /\ [][Next]_vars

\* Continuous mode on its own: the program started with --bot and a valid
\* configuration
InitMonitor == Init /\ config = "ok"

\* a step of the monitoring loop itself
LoopStep == BeginCycle \/ ScrapePage \/ BotProcess \/ Sleep

NextMonitor == MainBot \/ LoopStep \/ Interrupt

\* the process runs: it takes the next step of the loop whenever there is
\* one; only the interrupt may or may not come
FairSpec == InitMonitor /\ [][NextMonitor]_vars /\ WF_vars(LoopStep)

-----------------------------------------------------------------------------
(* Claims about the traversal and the cycles (Spec, FairSpec) *)

Min(S) == CHOOSE x \in S : \A y \in S \ {x} : x < y

RECURSIVE Flatten(_)
Flatten(ps) == IF Len(ps) = 0 THEN <<>> ELSE ps[1] \o Flatten(Tail(ps))

CycleEnd == pc = "scraped" /\ pc' \in {"sleep", "exited"}

\* C1: one call of scrape_all_pages fetches at most 3 pages, and every
\* product of the returned list comes from one of at most 3 extracted pages.
C1_AtMostThreePages ==
    /\ Len(fetched) <= 3
    /\ page_count = Len(fetched)
    /\ Len(pages) <= Len(fetched)
    /\ \A i \in 1..Len(all_products) :
          \E k \in 1..Len(pages) : \E j \in 1..Len(pages[k]) :
             pages[k][j] = all_products[i]

\* C1 witness: the traversal stopped at the limit with a further page pending
C1_Witness ==
    /\ pc = "scraped" /\ stop = "page_limit"
    /\ Len(fetched) = 3 /\ Len(pages) = 3
    /\ current_url # fetched[3]

\* C2: whatever ends the traversal, scrape_all_pages returns the products of
\* all pages extracted before, in page order: a fetch failure or a page
\* without products leaves the pages before it, the other conditions come
\* after the page was added.
C2_PartialResults ==
    pc = "scraped" =>
        /\ all_products = Flatten(pages)
        /\ stop \in {"fetch_failure", "no_products", "no_next", "same_url",
                     "page_limit", "resolver_error"}
        /\ stop \in {"fetch_failure", "no_products"}
              => Len(pages) = page_count - 1
        /\ stop \in {"no_next", "same_url", "page_limit", "resolver_error"}
              => Len(pages) = page_count

\* C2 witness: a fetch failure on the third page returns the first two pages
C2_Witness ==
    /\ pc = "scraped" /\ stop = "fetch_failure"
    /\ Len(pages) = 2 /\ Len(all_products) >= 2

\* C4: at the end of a cycle the new products are the scraped products whose
\* id was not known, the storage keys are the known ids united with the
\* scraped ids, every added record carries first_seen, every stored record
\* is unchanged; and the scrape itself does not touch the storage.
C4_CycleDiff ==
    [][ /\ pc = "scrape" => storage' = storage
        /\ CycleEnd =>
             /\ new_products' =
                   SelectSeq(all_products, LAMBDA p : p.id \notin DOMAIN storage)
             /\ DOMAIN storage' = DOMAIN storage \cup IdSet(all_products)
             /\ \A id \in DOMAIN storage' \ DOMAIN storage :
                   /\ "first_seen" \in DOMAIN storage'[id]
                   /\ storage'[id].first_seen = now
                   /\ \E i \in 1..Len(all_products) :
                         storage'[id] = Stored(all_products[i], now)
             /\ \A id \in DOMAIN storage : storage'[id] = storage[id]
      ]_vars

\* C4 witness: 101 known, 101, 102 and 103 scraped, 102 and 103 new
C4_Witness ==
    /\ pc \in {"sleep", "exited"}
    /\ known_ids = {Id101}
    /\ IdSet(all_products) = {Id101, Id102, Id103}
    /\ IdSet(new_products) = {Id102, Id103}
    /\ DOMAIN storage = {Id101, Id102, Id103}
    /\ storage[Id101] = Record101
    /\ storage[Id102].first_seen = now

\* C5: a continuous-mode cycle with new products stores them and saves once,
\* whatever the delivery of the notification was, and posts every message of
\* the notification once.
C5_PersistDespiteFailure ==
    (mode = "bot" /\ pc = "sleep" /\ Len(new_products) > 0) =>
        /\ IdSet(new_products) \subseteq DOMAIN storage
        /\ Len(saves) = 1
        /\ saves[1] = "ok" => file = [state |-> "json", data |-> storage]
        /\ notify_calls = 1
        /\ Len(sent) = Len(Chunks(new_products))
        /\ \A i \in 1..Len(sent) : sent[i].kind = "products"

\* C5 witness: no message was delivered and the new products are on disk
C5_Witness ==
    /\ mode = "bot" /\ pc = "sleep" /\ Len(new_products) > 0
    /\ Len(sent) > 0
    /\ \A i \in 1..Len(sent) : ~sent[i].ok
    /\ saves = <<"ok">>
    /\ IdSet(new_products) \subseteq DOMAIN file.data

\* C6: in continuous mode the process leaves the monitoring loop only by an
\* interrupt, and after a cycle whose traversal ended on an error the next
\* cycle is started, unless the process is interrupted.
C6_NextCycleStarts ==
    /\ [][ /\ (mode = "bot" /\ pc \in {"loop", "scrape", "scraped", "sleep"})
                => pc' \in {"loop", "scrape", "scraped", "sleep", "interrupted"}
           /\ (pc = "loop" /\ pc' = "scrape") => check_count' = check_count + 1
         ]_vars
    /\ (mode = "bot" /\ pc = "scraped" /\ check_count < MaxChecks
          /\ stop \in {"fetch_failure", "resolver_error"})
       ~> (pc = "interrupted" \/ (pc = "scrape" /\ page_count = 0))

\* C6 witness: a cycle is started after a cycle that ended on a fetch failure
C6_Witness ==
    /\ mode = "bot" /\ pc = "scrape" /\ page_count = 0
    /\ check_count = MaxChecks
    /\ stop = "fetch_failure"

\* C7 (as stated): the single check sends the new products it found through
\* the notification channel before it persists them.
C7_SingleNotifies ==
    (mode = "single" /\ pc = "exited" /\ Len(new_products) > 0) =>
        (notify_calls = 1 /\ Len(sent) > 0)

\* C7 (amended): an invocation with no argument performs one cycle of
\* scrape, diff and persist, in that order, and then exits with status 0;
\* it sends nothing through the notification channel.  (A storage file that
\* is no UTF-8 text ends it before the scrape, with status 1.)
C7_SingleCycle ==
    [][ mode' = "single" =>
          /\ sent' = <<>> /\ notify_calls' = 0 /\ check_count' = 0
          /\ pc = "main" =>
                IF load_raises(file) THEN pc' = "exited" /\ exit_code' = 1
                ELSE pc' = "scrape" /\ page_count' = 0
          /\ pc = "scrape" => (storage' = storage /\ file' = file)
          /\ pc = "scraped" =>
                /\ pc' = "exited" /\ exit_code' = 0
                /\ IdSet(all_products) \subseteq DOMAIN storage'
                /\ IdSet(all_products) \ known_ids # {}
                      => (Len(saves') = 1 /\ Len(new_products') > 0)
      ]_vars

\* C7 witness: the single check exited with new products saved, none sent
C7_Witness ==
    /\ mode = "single" /\ pc = "exited" /\ exit_code = 0
    /\ Len(new_products) > 0
    /\ saves = <<"ok">>
    /\ file = [state |-> "json", data |-> storage]
    /\ sent = <<>> /\ notify_calls = 0

\* C10: the storage file and the in-memory set change only at the end of a
\* cycle that found a new product; a cycle without scraped products or with
\* known products only changes neither and sends no product notification.
C10_WriteOnlyWithNew ==
    [][ /\ (file' # file \/ (pc # "main" /\ storage' # storage))
              => (CycleEnd /\ Len(new_products') > 0)
        /\ (CycleEnd /\ IdSet(all_products) \subseteq DOMAIN storage)
              => /\ file' = file /\ storage' = storage
                 /\ saves' = <<>> /\ sent' = <<>> /\ notify_calls' = 0
      ]_vars

\* C10 witness: a cycle scraped known products only and wrote nothing
C10_Witness ==
    /\ mode = "bot" /\ pc = "sleep"
    /\ Len(all_products) > 0
    /\ new_products = <<>>
    /\ saves = <<>> /\ sent = <<>> /\ notify_calls = 0
    /\ file.state = "absent"

C12_NoFetchWithoutConfig ==
    (config # "ok" /\ mode \in {"single", "bot"}) =>
        (pc = "exited" /\ fetched = <<>> /\ page_count = 0)

\* C12 (amended): in continuous mode a missing or invalid configuration
\* ends the process at startup, with status 0 after writing the template
\* for a missing file and status 1 otherwise, before the storage is loaded,
\* a message is sent or a page is fetched; the single check never reads the
\* configuration and starts its scrape whatever the configuration is.
C12_ConfigFatalInBotMode ==
    [][ /\ (pc = "main" /\ mode' = "bot" /\ config # "ok") =>
              /\ pc' = "exited"
              /\ exit_code' = (IF config = "missing" THEN 0 ELSE 1)
              /\ config' # "missing" /\ config' # "ok"
              /\ storage' = <<>> /\ sent' = <<>>
              /\ fetched' = <<>> /\ page_count' = 0 /\ check_count' = 0
        /\ (mode = "bot" /\ config # "ok") => pc = "exited"
        /\ mode' = "single" => config' = config
        /\ (pc = "main" /\ mode' = "single" /\ ~load_raises(file)) =>
              (pc' = "scrape" /\ current_url' = BASE_URL)
      ]_vars

\* C12 witness: continuous mode ended at startup on a placeholder chat id
C12_Witness ==
    /\ mode = "bot" /\ config = "placeholder_chat"
    /\ pc = "exited" /\ exit_code = 1
    /\ fetched = <<>> /\ page_count = 0 /\ storage = <<>>

\* C14: a storage file that cannot be read or parsed is the empty known set
\* and the run goes on: the single check starts its scrape, every scraped
\* product of the cycle is new, and a write that succeeds replaces the file
\* with the products found.
C14_UnreadableIsEmpty ==
    [][ /\ (pc = "main" /\ mode' = "single"
               /\ file.state \in {"corrupt", "undecodable"}) =>
              /\ pc' = "scrape"
              /\ storage' = <<>> /\ known_ids' = {}
        /\ (CycleEnd /\ file.state \in {"corrupt", "undecodable"}
               /\ storage = <<>> /\ Len(all_products) > 0) =>
              /\ new_products' = all_products
              /\ Len(saves') = 1
              /\ saves'[1] = "ok" =>
                    /\ file'.state = "json"
                    /\ DOMAIN file'.data = IdSet(all_products)
      ]_vars

\* C17: a product id extracted from more than one page of a cycle is listed
\* and counted once among the new products of the cycle, is notified once and
\* is stored once.
C17_DuplicateListedOnce ==
    pc \in {"sleep", "exited"} =>
        /\ \A i, j \in 1..Len(new_products) :
              new_products[i].id = new_products[j].id => i = j
        /\ Len(new_products) = Cardinality(IdSet(new_products))
        /\ \A k \in 1..Len(sent) : \A i, j \in 1..Len(sent[k].ids) :
              sent[k].ids[i] = sent[k].ids[j] => i = j
        /\ IdSet(new_products) \subseteq DOMAIN storage

\* C18: a notification that is split is sent as the consecutive batches of
\* 5 products (the last one may be shorter): message k carries the products
\* 5(k-1)+1 .. 5k of the list in their order, every product is in exactly
\* one message, and all messages are posted whatever the delivery of the
\* earlier ones was.
C18_ChunksOfFive ==
    (mode = "bot" /\ pc = "sleep" /\ MessageLen(new_products) > 4000) =>
        LET n == Len(new_products) IN
        /\ Len(sent) = (n + 4) \div 5
        /\ \A k \in 1..Len(sent) :
              /\ sent[k].kind = "products"
              /\ Len(sent[k].ids) <= 5
              /\ sent[k].ids =
                    [i \in 1..(IF 5 * k <= n THEN 5 ELSE n - 5 * (k - 1)) |->
                        new_products[5 * (k - 1) + i].id]

\* C18 witness: six new products, the first message of five not delivered,
\* the second message with the sixth product posted
C18_Witness ==
    /\ mode = "bot" /\ pc = "sleep"
    /\ Len(new_products) = 6 /\ MessageLen(new_products) > 4000
    /\ Len(sent) = 2
    /\ ~sent[1].ok /\ Len(sent[1].ids) = 5
    /\ sent[2].ok /\ sent[2].ids = <<new_products[6].id>>

\* C19: in continuous mode an id that a cycle had among its new products is
\* never among the new products of a later cycle of the process, whatever
\* the writes of the storage file did: every reported id is in the in-memory
\* set, which the diff of the next cycle reads.
C19_ReportedOnce ==
    [][ /\ (mode = "bot" /\ CycleEnd) => IdSet(new_products') \cap reported = {}
        /\ mode' = "bot" => reported' \subseteq DOMAIN storage'
      ]_vars

\* C19 witness: the second cycle scraped an id again that the first cycle
\* reported, no write ever reached the file, and the id was not reported again
C19_Witness ==
    /\ mode = "bot" /\ pc = "sleep" /\ check_count = 2
    /\ file.state = "absent"
    /\ Len(new_products) > 0 /\ saves = <<"open_failed">>
    /\ \E id \in IdSet(all_products) \ IdSet(new_products) : id \in reported

\* a URL that ends in /pN, or that contains /produse-recente and has page 1
SynthesisForm(u) ==
    /\ ~page_number_raises(u)
    /\ \/ PageSuffixStart(u) # 0
       \/ /\ get_current_page_number(u) = 1
          /\ \E i \in 2..Len(u) : u[i - 1] = "/" /\ u[i] = "produse-recente"

\* C20 (as stated): a traversal started at the base URL never ends through
\* the no-next-URL condition.
C20_NeverEndsOnNoNext ==
    pc = "scraped" => stop # "no_next"

\* C20 (amended): a page whose URL ends in /pN, or contains /produse-recente
\* and has page number 1, never ends the traversal through the no-next-URL
\* condition, so the first page never does; a traversal ends through it
\* only on a later page whose URL, taken from a next link, has neither form.
C20_NoNextOnlyOffListing ==
    [][ pc = "scrape" =>
          /\ SynthesisForm(current_url) => stop' # "no_next"
          /\ page_count = 0 => (current_url = BASE_URL /\ stop' # "no_next")
          /\ stop' = "no_next" =>
                /\ page_count >= 1
                /\ ~SynthesisForm(current_url)
                /\ current_url' = current_url
      ]_vars

\* C20 witness: the base URL led to the synthesized /p2, a next link led
\* from there to a listing of neither form, and the traversal ended there
\* for want of a next URL
C20_Witness ==
    /\ pc = "scraped" /\ stop = "no_next"
    /\ Len(fetched) = 3
    /\ fetched[1] = BASE_URL /\ fetched[2] = UrlP2 /\ fetched[3] = UrlAlt
    /\ Len(pages) = 3

-----------------------------------------------------------------------------
(* Claims about the pagination resolver (SpecPagination) *)

MatchedLink(as) ==
    LET explicit == {i \in 1..Len(as) : as[i].cls_next}
        labelled == {i \in 1..Len(as) :
                        as[i].pag /\ Lower(get_text(as[i].text)) \in NextLabels}
    IN IF explicit # {} THEN Min(explicit)
       ELSE IF labelled # {} THEN Min(labelled) ELSE 0

\* pagination anchors whose resolved page number is current page + 1
Numbered(as, cur) ==
    {i \in 1..Len(as) :
        /\ Scanned(as[i])
        /\ ~page_number_raises(urljoin(cur, as[i].href))
        /\ get_current_page_number(urljoin(cur, as[i].href))
             = get_current_page_number(cur) + 1}

\* pagination anchors whose page number is no number
Unreadable(as, cur) ==
    {i \in 1..Len(as) :
        Scanned(as[i]) /\ page_number_raises(urljoin(cur, as[i].href))}

\* C3 (as stated): find_next_page never returns a URL equal to the current
\* URL, whichever strategy produced the result.
C3_NeverReturnsCurrent ==
    op = "find_next_page" => result # url

\* C3 (amended): find_next_page returns the current URL only as the href of
\* a matched next link (explicit or by label) that resolves to the current
\* URL; the page-number scan and URL synthesis never return the current URL.
C3_CurrentOnlyFromNextLink ==
    op = "find_next_page" =>
        LET as == soup.anchors
            m  == MatchedLink(as)
        IN /\ m = 0 => result # url
           /\ result = url =>
                 /\ m # 0
                 /\ HasHref(as[m])
                 /\ urljoin(url, as[m].href) = url

\* C3 witnesses: a next link that points at the current page is returned
C3_Witness ==
    /\ op = "find_next_page"
    /\ result = url
    /\ MatchedLink(soup.anchors) # 0

C15_PageNumberAtLeastOne ==
    op = "get_current_page_number" =>
        /\ result # Raise
        /\ IsDigit(result) /\ IntOf(result) >= 1
        /\ (PageSuffixStart(url) = 0
              /\ (PageParam(url) = None \/ ~IsDigit(PageParam(url))))
             => result = <<"1">>

\* C16: without any anchor and with a current URL that ends in /pN the
\* result is the URL with N + 1 in place of N; with a current URL that ends
\* in /p2, no next-marked or next-labelled link and a pagination anchor that
\* resolves to page 3, the result is the resolved URL of such an anchor.
C16_SynthesisAndScan ==
    op = "find_next_page" =>
        LET as == soup.anchors
            s  == PageSuffixStart(url)
        IN /\ (as = <<>> /\ s # 0) =>
                 result = SubSeq(url, 1, s - 1) \o <<"/", "p">>
                            \o StrOf(IntOf(PageSuffixDigits(url)) + 1)
           /\ (s # 0 /\ PageSuffixDigits(url) = <<"2">>
                 /\ MatchedLink(as) = 0 /\ Numbered(as, url) # {}) =>
                 \E i \in Numbered(as, url) : result = urljoin(url, as[i].href)

-----------------------------------------------------------------------------
(* Claims about the extractor (SpecExtract) *)

\* C8: every record returned by extract_products has a non-empty id, name
\* and url, a price that is the text or "N/A", and an image_url that is an
\* absolute URL or absent.
C8_RecordsComplete ==
    op = "extract_products" =>
        \A i \in 1..Len(result) :
            /\ Len(result[i].id) > 0
            /\ Len(result[i].name) > 0
            /\ Len(result[i].url) > 0
            /\ DOMAIN result[i] = {"id", "name", "price", "url", "image_url"}
            /\ result[i].image_url = None \/ result[i].image_url[1] = H

\* C13: extract_product_id is a function of the URL alone: the final path
\* segment when it is all digits, whatever the query string; else the first
\* non-blank value of the query parameter id; else the URL unchanged.  The
\* result is not empty for a non-empty URL, and an id that is a number is
\* its own id.
C13_IdOfUrl ==
    op = "extract_product_id" =>
        LET path == StripChar(UrlPath(url), "/")
            seg  == SubSeq(path, LastIndexOf(path, "/") + 1, Len(path))
            ids  == parse_qs(UrlQuery(url), "id")
        IN /\ IsDigit(seg) => result = seg
           /\ (~IsDigit(seg) /\ Len(ids) > 0) => result = ids[1]
           /\ (~IsDigit(seg) /\ Len(ids) = 0) => result = url
           /\ Len(url) > 0 => Len(result) > 0
           /\ IsDigit(url) => result = url
           /\ IsDigit(result) => extract_product_id(result) = result

\* C13 witness: a numeric final segment wins over an id parameter
C13_Witness ==
    /\ op = "extract_product_id"
    /\ url = <<H, "/", "produs", "/", "4", "2", "/", "?", "id", "=", "7">>
    /\ result = <<"4", "2">>

=============================================================================
